---- MODULE Spec2Model ----
(***************************************************************************)
(* The report lifecycle of the civic issue reporter: ingestion with        *)
(* duplicate resolution (POST /report), the WhatsApp webhook, status       *)
(* updates (PATCH /report/:id, POST /report/:id/resolve), the SLA table     *)
(* and the escalation service (initializeSlaDeadlines, checkForEscalations)*)
(* over one SQLite table "reports".                                        *)
(*                                                                         *)
(* Time is counted in minutes.  A statement handed to the database runs at *)
(* some later moment, so every handler is cut at the points where it waits *)
(* for the database: one action per statement that runs, together with the *)
(* synchronous code of the callback that follows it.                       *)
(***************************************************************************)
EXTENDS Integers, Sequences, FiniteSets, TLC

VARIABLES
    reports,     \* the table: reports[id] is the row with AUTOINCREMENT id
    now,         \* the wall clock (new Date()), in minutes
    isRunning,   \* EscalationService.isRunning
    sweeps,      \* the invocations of checkForEscalations, by slot
    initPass,    \* the invocation of initializeSlaDeadlines
    posts,       \* the POST /report handlers in flight, by slot
    session,     \* userSessions entry of the WhatsApp sender
    skipLogged,  \* 'Escalation check already running, skipping...' was logged
    probe        \* the call under observation: its arguments and its result

vars == <<reports, now, isRunning, sweeps, initPass, posts, session, skipLogged, probe>>

-----------------------------------------------------------------------------
(* Bounds of the model *)

MaxReports == 3        \* rows the table may hold when only ingestion runs
MaxRows == 2           \* rows the table may hold when the whole system runs
MaxInflight == 2       \* POST /report handlers in flight at once
MaxSweeps == 2         \* invocations of checkForEscalations tracked at once
MaxTicks == 1          \* times the clock advances
TickMinutes == 500     \* minutes the clock advances at a time

\* SQL NULL / JavaScript undefined, for ids and timestamps
NULL == -1

\* positions of the reports, in metres along a street: 0 and 10 are 10 m
\* apart, 10 and 70 are 60 m apart
Locations == {0, 10, 70}

-----------------------------------------------------------------------------
(* SLA table *)

SeveritySla == [HIGH |-> 6, MEDIUM |-> 24, LOW |-> 72]

CategorySla ==
    ("GARBAGE_OVERFLOW" :> 6) @@ ("WATER_LEAK" :> 6) @@ ("DRAIN_BLOCKAGE" :> 12) @@
    ("POTHOLE" :> 24) @@ ("STREET_LIGHT" :> 24) @@ ("BROKEN_SIDEWALK" :> 48) @@
    ("ILLEGAL_DUMPING" :> 12) @@ ("DAMAGED_SIGN" :> 48) @@
    ("VEGETATION_OVERGROWTH" :> 72) @@ ("OTHER" :> 24)

MinutesPerHour == 60

Min(a, b) == IF a <= b THEN a ELSE b

\* report.severity || 'MEDIUM'
SeverityOrDefault(severity) == IF severity = "NULL" THEN "MEDIUM" ELSE severity

\* a slip that follows the comment 'Use the stricter (shorter) SLA'
slaHoursStricter(category, severity) ==
    IF category \in DOMAIN CategorySla
    THEN Min(CategorySla[category], SeveritySla[SeverityOrDefault(severity)])
    ELSE SeveritySla[SeverityOrDefault(severity)]

\* categorySla !== undefined ? categorySla : severitySla
slaHours(category, severity) ==
    IF category \in DOMAIN CategorySla
    THEN CategorySla[category]
    ELSE SeveritySla[SeverityOrDefault(severity)]

\* createdAt.getTime() + slaHours * 60 * 60 * 1000, in minutes
getSlaDeadline(report) ==
    report.created_at + slaHours(report.category, report.severity) * MinutesPerHour

\* if (!report.sla_deadline) return false; return now > deadline
isOverdue(sla_deadline, t) ==
    IF sla_deadline = NULL THEN FALSE ELSE t > sla_deadline

\* a slip that rounds the overdue hours up
getHoursOverdueCeil(sla_deadline, t) ==
    IF sla_deadline = NULL THEN 0
    ELSE IF t <= sla_deadline THEN 0
    ELSE (t - sla_deadline + MinutesPerHour - 1) \div MinutesPerHour

\* Math.floor(diffMs / (1000 * 60 * 60))
getHoursOverdue(sla_deadline, t) ==
    IF sla_deadline = NULL THEN 0
    ELSE IF t <= sla_deadline THEN 0
    ELSE (t - sla_deadline) \div MinutesPerHour

-----------------------------------------------------------------------------
(* Classifier and similarity oracle *)

\* the answer of aiService.analyzeImage the specifications draw: a category of
\* the table whose override (6 h) differs from the value of its severity (72 h)
LeakLow == [category |-> "WATER_LEAK", severity |-> "LOW", estimatedUrgency |-> "MODERATE"]

\* fallbackAnalysis without description, and with 'pothole' in the description
FallbackOther == [category |-> "OTHER", severity |-> "MEDIUM", estimatedUrgency |-> "MODERATE"]
FallbackPothole == [category |-> "POTHOLE", severity |-> "HIGH", estimatedUrgency |-> "URGENT"]

\* an answer of the vision model with the highest urgency
OverflowHigh ==
    [category |-> "GARBAGE_OVERFLOW", severity |-> "HIGH", estimatedUrgency |-> "IMMEDIATE"]

\* the answers of aiService.analyzeImage the request specification draws
Classifications == {LeakLow, FallbackOther, FallbackPothole, OverflowHigh}

\* what the comparison with one candidate comes to: the stored image is
\* missing, compareImages throws, or it returns a score
Outcomes ==
    { [kind |-> "unreadable", score |-> 0],
      [kind |-> "throws", score |-> 0],
      [kind |-> "score", score |-> 79],
      [kind |-> "score", score |-> 80],
      [kind |-> "score", score |-> 85] }

SimilarityThreshold == 80

RadiusMetres == 50

Distance(a, b) == IF a >= b THEN a - b ELSE b - a

Ids == 1..Len(reports)

\* aiService.findNearbyReports(lat, lon, 50): the stored reports within the radius
Nearby(loc) == {id \in Ids : Distance(reports[id].loc, loc) <= RadiusMetres}

\* the orders in which a query may return the set S
Orderings(S) ==
    {s \in [1..Cardinality(S) -> S] : \A i, j \in 1..Cardinality(S) : s[i] = s[j] => i = j}

NoMatch == [primary |-> NULL, score |-> 0, calls |-> <<>>]

\* a slip that takes every answer of the oracle as a match
MatchesNoThreshold(o) == o.kind = "score"

\* similarity.similarityScore >= 80
Matches(o) == o.kind = "score" /\ o.score >= SimilarityThreshold

\* a slip that drops the 'break' and keeps the last match
RECURSIVE ScanFromNoBreak(_, _, _, _)
ScanFromNoBreak(cands, outcomes, i, acc) ==
    IF i > Len(cands) THEN acc
    ELSE IF outcomes[i].kind = "unreadable"
         THEN ScanFromNoBreak(cands, outcomes, i + 1, acc)
         ELSE LET called == Append(acc.calls, cands[i]) IN
              IF Matches(outcomes[i])
              THEN ScanFromNoBreak(cands, outcomes, i + 1,
                       [primary |-> cands[i], score |-> outcomes[i].score, calls |-> called])
              ELSE ScanFromNoBreak(cands, outcomes, i + 1, [acc EXCEPT !.calls = called])

\* a slip that puts the try/catch around the loop: a comparison that throws
\* ends the scan
RECURSIVE ScanFromStopOnError(_, _, _, _)
ScanFromStopOnError(cands, outcomes, i, acc) ==
    IF i > Len(cands) THEN acc
    ELSE IF outcomes[i].kind = "unreadable"
         THEN ScanFromStopOnError(cands, outcomes, i + 1, acc)
         ELSE LET called == Append(acc.calls, cands[i]) IN
              IF outcomes[i].kind = "throws"
              THEN [acc EXCEPT !.calls = called]
              ELSE IF Matches(outcomes[i])
                   THEN [primary |-> cands[i], score |-> outcomes[i].score, calls |-> called]
                   ELSE ScanFromStopOnError(cands, outcomes, i + 1,
                            [acc EXCEPT !.calls = called])

\* for (const nearbyReport of nearbyReports) { ... break on the first match }
RECURSIVE ScanFrom(_, _, _, _)
ScanFrom(cands, outcomes, i, acc) ==
    IF i > Len(cands) THEN acc
    ELSE IF outcomes[i].kind = "unreadable"
         THEN ScanFrom(cands, outcomes, i + 1, acc)
         ELSE LET called == Append(acc.calls, cands[i]) IN
              IF Matches(outcomes[i])
              THEN [primary |-> cands[i], score |-> outcomes[i].score, calls |-> called]
              ELSE ScanFrom(cands, outcomes, i + 1, [acc EXCEPT !.calls = called])

SimilarityScan(cands, outcomes) == ScanFrom(cands, outcomes, 1, NoMatch)

-----------------------------------------------------------------------------
(* Rows *)

\* the values the columns of the escalation service take when an INSERT does
\* not name them: database.js does not create these columns; the sweep selects
\* on escalated = 0 and the startup pass on sla_deadline IS NULL
EscalationDefaults ==
    [escalated |-> FALSE, escalationNotified |-> FALSE, slaDeadline |-> NULL]

\* ai_analysis TEXT, without default
NoAnalysis == [category |-> "NULL", severity |-> "NULL", estimatedUrgency |-> "NULL"]

\* the values a row takes for the columns an INSERT does not name
DefaultRow ==
    [loc |-> 0, category |-> "OTHER", severity |-> "MEDIUM", priority |-> "MEDIUM",
     urgent |-> FALSE, status |-> "pending",
     escalated |-> EscalationDefaults.escalated,
     escalationNotified |-> EscalationDefaults.escalationNotified,
     slaDeadline |-> EscalationDefaults.slaDeadline, createdAt |-> NULL,
     isPrimary |-> TRUE, duplicateOf |-> NULL, duplicateCount |-> 1,
     mergedReports |-> <<>>, similarityScore |-> 0, resolutionPhoto |-> FALSE,
     aiAnalysis |-> NoAnalysis]

\* aiAnalysis.estimatedUrgency === 'IMMEDIATE' || ... === 'URGENT'
IsUrgent(cls) == cls.estimatedUrgency \in {"IMMEDIATE", "URGENT"}

\* a slip that leaves is_primary out of the duplicate INSERT (DEFAULT TRUE)
DuplicateRowDefaultPrimary(loc, cls, primary, score, t) ==
    [DefaultRow EXCEPT
        !.loc = loc, !.category = cls.category, !.severity = cls.severity,
        !.priority = SeverityOrDefault(cls.severity), !.urgent = IsUrgent(cls),
        !.aiAnalysis = cls,
        !.duplicateOf = primary, !.similarityScore = score,
        !.slaDeadline = getSlaDeadline([category |-> cls.category,
                                        severity |-> cls.severity, created_at |-> t]),
        !.createdAt = t]

\* the row of the duplicate INSERT of POST /report
DuplicateRow(loc, cls, primary, score, t) ==
    [DefaultRow EXCEPT
        !.loc = loc, !.category = cls.category, !.severity = cls.severity,
        !.priority = SeverityOrDefault(cls.severity), !.urgent = IsUrgent(cls),
        !.aiAnalysis = cls,
        !.duplicateOf = primary, !.similarityScore = score, !.isPrimary = FALSE,
        !.slaDeadline = getSlaDeadline([category |-> cls.category,
                                        severity |-> cls.severity, created_at |-> t]),
        !.createdAt = t]

\* the row of the 'new unique report' INSERT of POST /report
PrimaryRow(loc, cls, t) ==
    [DefaultRow EXCEPT
        !.loc = loc, !.category = cls.category, !.severity = cls.severity,
        !.priority = SeverityOrDefault(cls.severity), !.urgent = IsUrgent(cls),
        !.aiAnalysis = cls,
        !.duplicateCount = 1, !.isPrimary = TRUE,
        !.slaDeadline = getSlaDeadline([category |-> cls.category,
                                        severity |-> cls.severity, created_at |-> t]),
        !.createdAt = t]

\* the row of the INSERT of processCompleteReport (no sla_deadline column)
WebhookRow(loc, cls, t) ==
    [DefaultRow EXCEPT
        !.loc = loc,
        !.category = cls.category,
        !.severity = SeverityOrDefault(cls.severity),
        !.priority = "MEDIUM",
        !.urgent = IsUrgent(cls), !.aiAnalysis = cls,
        !.duplicateCount = 1, !.isPrimary = TRUE,
        !.createdAt = t]

-----------------------------------------------------------------------------
(* Initial state: the process has just run escalationService.start(30) on   *)
(* an empty table: both passes have handed their SELECT to the database.    *)

IdlePost == [pc |-> "idle"]
IdleSweep == [pc |-> "idle"]
NoSession == [location |-> NULL, photo |-> FALSE]
NoProbe == [fn |-> "none"]

Started ==
    /\ isRunning = TRUE
    /\ sweeps = [s \in 1..MaxSweeps |-> IF s = 1 THEN [pc |-> "select"] ELSE IdleSweep]
    /\ initPass = [pc |-> "select"]
    /\ posts = [h \in 1..MaxInflight |-> IdlePost]
    /\ session = NoSession
    /\ skipLogged = FALSE

Init ==
    /\ reports = <<>>
    /\ now = 0
    /\ Started
    /\ probe = NoProbe

-----------------------------------------------------------------------------
(* POST /report *)

\* handlers that have not yet run their INSERT
PendingInserts == Cardinality({h \in 1..MaxInflight : posts[h].pc = "scan"})

\* the request has passed validation and analyzeImage; findNearbyReports runs
PostReportQuery(h, loc, cap) ==
    /\ posts[h].pc = "idle"
    /\ \A g \in 1..(h - 1) : posts[g].pc # "idle"
    /\ Len(reports) + PendingInserts < cap
    /\ \E cands \in Orderings(Nearby(loc)) :
          posts' = [posts EXCEPT ![h] = [pc |-> "scan", loc |-> loc, cands |-> cands]]
    /\ UNCHANGED <<reports, now, isRunning, sweeps, initPass, session, skipLogged, probe>>

\* the candidates whose image was missing or whose comparison threw
ScanErrors(cands, outcomes) ==
    {cands[i] : i \in {k \in DOMAIN cands : outcomes[k].kind \in {"unreadable", "throws"}}}

\* the slot of a request that has been answered: with keep, the slot holds
\* the response (res.status(...).json(...)) and what the request did until
\* the next request takes the slot
Answered(keep, response) ==
    IF keep THEN [pc |-> "idle"] @@ response ELSE IdlePost

\* the similarity scan, the SLA deadline and the INSERT of the new row; a
\* failed INSERT answers 500, the INSERT of a new unique report answers 201
PostReportInsert(h, cls, ok, answers, keep) ==
    /\ posts[h].pc = "scan"
    /\ \E outcomes \in [1..Len(posts[h].cands) -> answers] :
       LET scan == SimilarityScan(posts[h].cands, outcomes)
           newId == Len(reports) + 1
           errors == ScanErrors(posts[h].cands, outcomes)
       IN IF scan.primary # NULL
          THEN IF ok
               THEN /\ reports' = Append(reports,
                            DuplicateRow(posts[h].loc, cls, scan.primary, scan.score, now))
                    /\ posts' = [posts EXCEPT ![h] =
                            [pc |-> "update", newId |-> newId, primary |-> scan.primary,
                             cands |-> posts[h].cands, outcomes |-> outcomes,
                             calls |-> scan.calls]]
               ELSE /\ posts' = [posts EXCEPT ![h] = Answered(keep,
                            [status |-> 500, newId |-> NULL, primary |-> scan.primary,
                             updated |-> FALSE, calls |-> scan.calls, errors |-> errors])]
                    /\ UNCHANGED reports
          ELSE IF ok
               THEN /\ reports' = Append(reports, PrimaryRow(posts[h].loc, cls, now))
                    /\ posts' = [posts EXCEPT ![h] = Answered(keep,
                            [status |-> 201, newId |-> newId, primary |-> NULL,
                             updated |-> FALSE, calls |-> scan.calls, errors |-> errors])]
               ELSE /\ posts' = [posts EXCEPT ![h] = Answered(keep,
                            [status |-> 500, newId |-> NULL, primary |-> NULL,
                             updated |-> FALSE, calls |-> scan.calls, errors |-> errors])]
                    /\ UNCHANGED reports
    /\ UNCHANGED <<now, isRunning, sweeps, initPass, session, skipLogged, probe>>

\* a slip that counts the duplicate without listing it
MergeIntoCountOnly(row, duplicateReportId) ==
    [row EXCEPT !.duplicateCount = @ + 1]

\* a slip that always writes json_array(?): the list is overwritten
MergeIntoOverwrite(row, duplicateReportId) ==
    [row EXCEPT !.duplicateCount = @ + 1, !.mergedReports = <<duplicateReportId>>]

\* SET duplicate_count = duplicate_count + 1, merged_reports = json_array(?) or
\* json_insert(merged_reports, '$[#]', ?)
MergeInto(row, duplicateReportId) ==
    [row EXCEPT !.duplicateCount = @ + 1,
                !.mergedReports = Append(@, duplicateReportId)]

\* the UPDATE of the referenced report, then the 201 response, whether the
\* UPDATE failed (the error is logged) or not
PostReportUpdatePrimary(h, ok, keep) ==
    /\ posts[h].pc = "update"
    /\ IF ok
       THEN reports' = [reports EXCEPT ![posts[h].primary] = MergeInto(@, posts[h].newId)]
       ELSE UNCHANGED reports
    /\ posts' = [posts EXCEPT ![h] = Answered(keep,
            [status |-> 201, newId |-> posts[h].newId, primary |-> posts[h].primary,
             updated |-> ok, calls |-> posts[h].calls,
             errors |-> ScanErrors(posts[h].cands, posts[h].outcomes)])]
    /\ UNCHANGED <<now, isRunning, sweeps, initPass, session, skipLogged, probe>>

-----------------------------------------------------------------------------
(* WhatsApp webhook *)

\* processCompleteReport: clear the session, classify, INSERT
processCompleteReport(loc, cls, ok) ==
    /\ session' = NoSession
    /\ IF ok
       THEN reports' = Append(reports, WebhookRow(loc, cls, now))
       ELSE UNCHANGED reports

\* a message that carries coordinates
WebhookLocation(loc, cls, ok, cap) ==
    /\ IF session.photo
       THEN /\ Len(reports) + PendingInserts < cap
            /\ processCompleteReport(loc, cls, ok)
       ELSE /\ session' = [session EXCEPT !.location = loc]
            /\ UNCHANGED reports
    /\ UNCHANGED <<now, isRunning, sweeps, initPass, posts, skipLogged, probe>>

\* a photo message without coordinates
WebhookPhoto(downloaded) ==
    /\ IF downloaded
       THEN session' = [session EXCEPT !.photo = TRUE]
       ELSE UNCHANGED session
    /\ UNCHANGED <<reports, now, isRunning, sweeps, initPass, posts, skipLogged, probe>>

\* a photo message whose text holds the coordinates
WebhookPhotoWithLocation(loc, cls, ok, cap) ==
    /\ Len(reports) + PendingInserts < cap
    /\ processCompleteReport(loc, cls, ok)
    /\ UNCHANGED <<now, isRunning, sweeps, initPass, posts, skipLogged, probe>>

-----------------------------------------------------------------------------
(* Status updates *)

Statuses == {"pending", "verified", "resolved"}

\* the sweeps that hold a snapshot note the rows changed under them
Touch(id) ==
    [s \in 1..MaxSweeps |->
        IF sweeps[s].pc \in {"loop", "finish"} /\ id \in {r.id : r \in sweeps[s].open}
        THEN [sweeps[s] EXCEPT !.touched = @ \cup {id}]
        ELSE sweeps[s]]

\* a slip that resolves without clearing the escalation flags
PatchedRowKeepFlags(row, status) == [row EXCEPT !.status = status]

\* a slip that clears the escalation flags on every status update
PatchedRowAlwaysClears(row, status) ==
    [row EXCEPT !.status = status, !.escalated = FALSE, !.escalationNotified = FALSE]

\* UPDATE reports SET status = ?, escalated = 0, escalation_notified = 0 when
\* resolving, UPDATE reports SET status = ? otherwise
PatchedRow(row, status) ==
    IF status = "resolved"
    THEN [row EXCEPT !.status = status, !.escalated = FALSE, !.escalationNotified = FALSE]
    ELSE [row EXCEPT !.status = status]

\* a slip that runs the UPDATE without the check of the status
PatchReportUnchecked(id, status, keep) ==
    /\ IF id \in Ids
       THEN /\ reports' = [reports EXCEPT ![id] = PatchedRow(@, status)]
            /\ sweeps' = Touch(id)
       ELSE UNCHANGED <<reports, sweeps>>
    /\ probe' = IF keep
                THEN [fn |-> "PATCH", id |-> id, status |-> status,
                      code |-> IF id \in Ids THEN 200 ELSE 404]
                ELSE probe
    /\ UNCHANGED <<now, isRunning, initPass, posts, session, skipLogged>>

\* PATCH /report/:id: 400 for a missing or unknown status, else the UPDATE
\* runs and this.changes === 0 answers 404; with keep, the call and the code
\* of its response are kept in probe
PatchReport(id, status, keep) ==
    /\ IF status \in Statuses /\ id \in Ids
       THEN /\ reports' = [reports EXCEPT ![id] = PatchedRow(@, status)]
            /\ sweeps' = Touch(id)
       ELSE UNCHANGED <<reports, sweeps>>
    /\ probe' = IF keep
                THEN [fn |-> "PATCH", id |-> id, status |-> status,
                      code |-> IF status \notin Statuses THEN 400
                               ELSE IF id \notin Ids THEN 404 ELSE 200]
                ELSE probe
    /\ UNCHANGED <<now, isRunning, initPass, posts, session, skipLogged>>

\* the UPDATE of POST /report/:id/resolve, with or without AI verification
ResolvedRow(row) ==
    [row EXCEPT !.status = "resolved", !.resolutionPhoto = TRUE,
                !.escalated = FALSE, !.escalationNotified = FALSE]

\* POST /report/:id/resolve; verified tells whether verifyResolution returned
ResolveReport(id, verified, ok) ==
    /\ IF id \in Ids /\ ok
       THEN /\ reports' = [reports EXCEPT ![id] = ResolvedRow(@)]
            /\ sweeps' = Touch(id)
       ELSE UNCHANGED <<reports, sweeps>>
    /\ UNCHANGED <<now, isRunning, initPass, posts, session, skipLogged, probe>>

-----------------------------------------------------------------------------
(* Escalation service *)

\* SELECT * FROM reports WHERE status IN ('pending', 'verified') AND
\* escalated = 0 ORDER BY created_at ASC
OpenRows ==
    SelectSeq([id \in Ids |-> [id |-> id, sla_deadline |-> reports[id].slaDeadline]],
              LAMBDA r : /\ reports[r.id].status \in {"pending", "verified"}
                         /\ ~reports[r.id].escalated)

\* the loop passes the rows that are not overdue without waiting
RECURSIVE SkipNotOverdue(_, _)
SkipNotOverdue(rows, t) ==
    IF rows = <<>> THEN rows
    ELSE IF isOverdue(rows[1].sla_deadline, t) THEN rows
    ELSE SkipNotOverdue(Tail(rows), t)

\* a slip that starts a sweep whatever the flag says
AlreadyRunningIgnored == FALSE

\* if (this.isRunning) return
AlreadyRunning == isRunning

\* the timer calls checkForEscalations
TimerFire ==
    /\ IF AlreadyRunning
       THEN /\ skipLogged' = TRUE
            /\ UNCHANGED <<isRunning, sweeps>>
       ELSE /\ \E s \in 1..MaxSweeps :
                 /\ sweeps[s].pc = "idle"
                 /\ \A r \in 1..(s - 1) : sweeps[r].pc # "idle"
                 /\ sweeps' = [sweeps EXCEPT ![s] = [pc |-> "select"]]
            /\ isRunning' = TRUE
            /\ UNCHANGED skipLogged
    /\ UNCHANGED <<reports, now, initPass, posts, session, probe>>

\* where the loop stands after the rows in front have been passed
Continue(s, rest) ==
    LET left == SkipNotOverdue(rest, now)
    IN [sweeps[s] EXCEPT !.pc = IF left = <<>> THEN "finish" ELSE "loop", !.rows = left]

\* the SELECT of checkForEscalations runs; beside the rows the loop still has
\* to visit, the invocation keeps the rows that matched the SELECT when it ran
\* (open), what it emitted (notified), the rows for which a statement of the
\* invocation failed, the SELECT or their UPDATE (failed), and which of the
\* open rows a status update changed meanwhile (touched)
SweepSelect(s, ok) ==
    /\ sweeps[s].pc = "select"
    /\ IF ok
       THEN LET rows == OpenRows
                left == SkipNotOverdue(rows, now)
            IN sweeps' = [sweeps EXCEPT ![s] =
                   [pc |-> IF left = <<>> THEN "finish" ELSE "loop",
                    rows |-> left,
                    start |-> now,
                    open |-> {[id |-> rows[i].id, sla_deadline |-> rows[i].sla_deadline,
                               status |-> reports[rows[i].id].status] : i \in 1..Len(rows)},
                    notified |-> <<>>, failed |-> {}, touched |-> {}]]
       ELSE LET rows == OpenRows
            IN sweeps' = [sweeps EXCEPT ![s] =
                   [pc |-> "finish", rows |-> <<>>, start |-> now,
                    open |-> {[id |-> rows[i].id, sla_deadline |-> rows[i].sla_deadline,
                               status |-> reports[rows[i].id].status] : i \in 1..Len(rows)},
                    notified |-> <<>>,
                    failed |-> {rows[i].id : i \in 1..Len(rows)}, touched |-> {}]]
    /\ UNCHANGED <<reports, now, isRunning, initPass, posts, session, skipLogged, probe>>

\* a slip that raises the priority and leaves the escalated column out
EscalatedRowPriorityOnly(row) == [row EXCEPT !.priority = "HIGH"]

\* UPDATE reports SET escalated = 1, priority = 'HIGH', status = (as it is)
EscalatedRow(row) == [row EXCEPT !.escalated = TRUE, !.priority = "HIGH"]

\* the event notifySupervisors logs for a row of the snapshot
Notification(row) ==
    [id |-> row.id, hoursOverdue |-> getHoursOverdue(row.sla_deadline, now)]

\* escalateReport's UPDATE runs for the row the loop waits on; notifySupervisors
SweepEscalate(s, ok) ==
    /\ sweeps[s].pc = "loop"
    /\ LET row == sweeps[s].rows[1]
           next == Continue(s, Tail(sweeps[s].rows))
       IN IF ok
          THEN /\ reports' = [reports EXCEPT ![row.id] = EscalatedRow(@)]
               /\ sweeps' = [sweeps EXCEPT ![s] =
                      [next EXCEPT !.notified = Append(@, Notification(row))]]
          ELSE /\ UNCHANGED reports
               /\ sweeps' = [sweeps EXCEPT ![s] =
                      [next EXCEPT !.failed = @ \cup {row.id}]]
    /\ UNCHANGED <<now, isRunning, initPass, posts, session, skipLogged, probe>>

\* what is known of an invocation of checkForEscalations that has ended
Ended(keep, sweep) ==
    IF keep
    THEN [fn |-> "checkForEscalations", failed |-> sweep.failed,
          escalatedCount |-> Len(sweep.notified)]
    ELSE probe

\* a slip that releases the flag at the end of the try block, not in finally
SweepFinishNoFinally(s, keep) ==
    /\ sweeps[s].pc = "finish"
    /\ sweeps' = [sweeps EXCEPT ![s] = IdleSweep]
    /\ isRunning' = IF sweeps[s].failed = {} THEN FALSE ELSE isRunning
    /\ skipLogged' = FALSE
    /\ probe' = Ended(keep, sweeps[s])
    /\ UNCHANGED <<reports, now, initPass, posts, session>>

\* 'Escalation check complete' and finally { this.isRunning = false }; with
\* keep, what the invocation did is kept in probe
SweepFinish(s, keep) ==
    /\ sweeps[s].pc = "finish"
    /\ sweeps' = [sweeps EXCEPT ![s] = IdleSweep]
    /\ isRunning' = FALSE
    /\ skipLogged' = FALSE
    /\ probe' = Ended(keep, sweeps[s])
    /\ UNCHANGED <<reports, now, initPass, posts, session>>

\* SELECT id, category, severity, created_at, timestamp WHERE sla_deadline IS NULL
InitSelect(ok) ==
    /\ initPass.pc = "select"
    /\ LET rows == SelectSeq([id \in Ids |-> id],
                             LAMBDA id : reports[id].slaDeadline = NULL)
       IN initPass' = IF ok /\ rows # <<>>
                      THEN [pc |-> "loop", rows |-> rows]
                      ELSE [pc |-> "done"]
    /\ UNCHANGED <<reports, now, isRunning, sweeps, posts, session, skipLogged, probe>>

\* UPDATE reports SET sla_deadline = ? WHERE id = ?; an error ends the pass
InitUpdate(ok) ==
    /\ initPass.pc = "loop"
    /\ LET id == initPass.rows[1]
           rest == Tail(initPass.rows)
       IN IF ok
          THEN /\ reports' = [reports EXCEPT ![id].slaDeadline =
                      getSlaDeadline([category |-> reports[id].category,
                                      severity |-> reports[id].severity,
                                      created_at |-> reports[id].createdAt])]
               /\ initPass' = IF rest = <<>> THEN [pc |-> "done"]
                              ELSE [pc |-> "loop", rows |-> rest]
          ELSE /\ UNCHANGED reports
               /\ initPass' = [pc |-> "done"]
    /\ UNCHANGED <<now, isRunning, sweeps, posts, session, skipLogged, probe>>

-----------------------------------------------------------------------------
(* Environment *)

\* time passes
Tick ==
    /\ now + TickMinutes <= MaxTicks * TickMinutes
    /\ now' = now + TickMinutes
    /\ UNCHANGED <<reports, isRunning, sweeps, initPass, posts, session, skipLogged, probe>>

\* the idle process is stopped and started again: the table stays, the
\* memory of the process is new and escalationService.start(30) runs
Restart ==
    /\ \A h \in 1..MaxInflight : posts[h].pc = "idle"
    /\ \A s \in 1..MaxSweeps : sweeps[s].pc = "idle"
    /\ initPass.pc = "done"
    /\ isRunning' = TRUE
    /\ sweeps' = [s \in 1..MaxSweeps |-> IF s = 1 THEN [pc |-> "select"] ELSE IdleSweep]
    /\ initPass' = [pc |-> "select"]
    /\ session' = NoSession
    /\ skipLogged' = FALSE
    /\ UNCHANGED <<reports, now, posts, probe>>

\* the whole system: one POST /report handler at a time, every report
\* within the radius of every other
Next ==
    \/ \E loc \in {10} : PostReportQuery(1, loc, MaxRows)
    \/ \E ok \in BOOLEAN : PostReportInsert(1, LeakLow, ok, {o \in Outcomes : o.score \in {79, 85}}, FALSE)
    \/ \E ok \in BOOLEAN : PostReportUpdatePrimary(1, ok, FALSE)
    \/ \E loc \in {10}, ok \in BOOLEAN : WebhookPhotoWithLocation(loc, LeakLow, ok, MaxRows)
    \/ \E id \in 1..MaxRows, status \in Statuses \cup {"closed"} : PatchReport(id, status, FALSE)
    \/ \E id \in 1..MaxRows, verified \in BOOLEAN, ok \in BOOLEAN :
          ResolveReport(id, verified, ok)
    \/ TimerFire
    \/ \E s \in 1..MaxSweeps, ok \in BOOLEAN : SweepSelect(s, ok)
    \/ \E s \in 1..MaxSweeps, ok \in BOOLEAN : SweepEscalate(s, ok)
    \/ \E s \in 1..MaxSweeps : SweepFinish(s, FALSE)
    \/ \E ok \in BOOLEAN : InitSelect(ok)
    \/ \E ok \in BOOLEAN : InitUpdate(ok)
    \/ Tick
    \/ Restart

Spec == Init /\ [][Next]_vars

\* ingestion alone: concurrent POST /report handlers and the webhook, at
\* every location, with one answer of the classifier
NextIngest ==
    \/ \E h \in 1..MaxInflight, loc \in Locations : PostReportQuery(h, loc, MaxReports)
    \/ \E h \in 1..MaxInflight, ok \in BOOLEAN :
          PostReportInsert(h, LeakLow, ok, Outcomes, FALSE)
    \/ \E h \in 1..MaxInflight, ok \in BOOLEAN : PostReportUpdatePrimary(h, ok, FALSE)
    \/ \E loc \in Locations, ok \in BOOLEAN :
          WebhookLocation(loc, LeakLow,
                          ok, MaxReports)
    \/ \E downloaded \in BOOLEAN : WebhookPhoto(downloaded)
    \/ \E loc \in Locations, ok \in BOOLEAN :
          WebhookPhotoWithLocation(loc, LeakLow,
                                   ok, MaxReports)

SpecIngest == Init /\ [][NextIngest]_vars

\* requests and their responses: one POST /report at a time and the webhook,
\* with every answer of the classifier and of the oracle; the slot keeps the
\* response of the last request
NextRequests ==
    \/ \E loc \in Locations : PostReportQuery(1, loc, MaxReports)
    \/ \E cls \in Classifications, ok \in BOOLEAN :
          PostReportInsert(1, cls, ok, Outcomes, TRUE)
    \/ \E ok \in BOOLEAN : PostReportUpdatePrimary(1, ok, TRUE)
    \/ \E loc \in Locations, cls \in Classifications, ok \in BOOLEAN :
          WebhookPhotoWithLocation(loc, cls, ok, MaxReports)

SpecRequests == Init /\ [][NextRequests]_vars

\* the values a PATCH request may carry as status: the three of the check,
\* an unknown one and none
PatchStatuses == Statuses \cup {"closed", "NULL"}

\* status updates and their responses, on reports the webhook has stored
NextStatus ==
    \/ \E ok \in BOOLEAN : WebhookPhotoWithLocation(10, LeakLow, ok, MaxRows)
    \/ \E id \in 1..MaxRows, status \in PatchStatuses : PatchReport(id, status, TRUE)
    \/ \E id \in 1..MaxRows, verified \in BOOLEAN, ok \in BOOLEAN :
          ResolveReport(id, verified, ok)

SpecStatus == Init /\ [][NextStatus]_vars

\* the escalation service at work beside the two ingestion paths, with no
\* status update: the statements of the store get the answers in oks, and
\* with keep the end of each sweep is kept in probe
NextLive(oks, keep) ==
    \/ PostReportQuery(1, 10, MaxRows)
    \/ \E ok \in oks : PostReportInsert(1, LeakLow, ok, {o \in Outcomes : o.score \in {79}}, FALSE)
    \/ \E ok \in oks : WebhookPhotoWithLocation(10, LeakLow, ok, MaxRows)
    \/ TimerFire
    \/ \E s \in 1..MaxSweeps, ok \in oks : SweepSelect(s, ok)
    \/ \E s \in 1..MaxSweeps, ok \in oks : SweepEscalate(s, ok)
    \/ \E s \in 1..MaxSweeps : SweepFinish(s, keep)
    \/ \E ok \in oks : InitSelect(ok)
    \/ \E ok \in oks : InitUpdate(ok)
    \/ Tick
    \/ Restart

\* setInterval fires again and again, and every statement handed to the store
\* gets its callback; nothing obliges time to pass, a request to arrive or the
\* process to be started again
FairLive(oks, keep) ==
    /\ WF_vars(TimerFire)
    /\ \A s \in 1..MaxSweeps :
          /\ WF_vars(\E ok \in oks : SweepSelect(s, ok))
          /\ WF_vars(\E ok \in oks : SweepEscalate(s, ok))
          /\ WF_vars(SweepFinish(s, keep))
    /\ WF_vars(\E ok \in oks : InitSelect(ok))
    /\ WF_vars(\E ok \in oks : InitUpdate(ok))
    /\ WF_vars(\E ok \in oks : PostReportInsert(1, LeakLow, ok, {o \in Outcomes : o.score \in {79}}, FALSE))

\* a store that answers every statement
NextEscalate == NextLive({TRUE}, FALSE)
SpecEscalate == Init /\ [][NextEscalate]_vars /\ FairLive({TRUE}, FALSE)

\* a store that may fail any statement
NextSweeps == NextLive(BOOLEAN, TRUE)
SpecSweeps == Init /\ [][NextSweeps]_vars /\ FairLive(BOOLEAN, TRUE)

\* concurrent POST /report handlers for reports of one issue: the locations
\* are 10 m apart, every stored image is read and the oracle scores every
\* pair of images 85
SameIssue == {o \in Outcomes : o.kind = "score" /\ o.score = 85}

NextRace ==
    \/ \E h \in 1..MaxInflight, loc \in {0, 10} : PostReportQuery(h, loc, MaxReports)
    \/ \E h \in 1..MaxInflight, ok \in BOOLEAN :
          PostReportInsert(h, LeakLow, ok, SameIssue, FALSE)
    \/ \E h \in 1..MaxInflight, ok \in BOOLEAN : PostReportUpdatePrimary(h, ok, FALSE)

SpecRace == Init /\ [][NextRace]_vars

-----------------------------------------------------------------------------
(* getSlaDeadline on its own *)

SlaCategories == DOMAIN CategorySla \cup {"GRAFFITI"}
SlaSeverities == {"HIGH", "MEDIUM", "LOW", "NULL"}
SlaCreated == {0, 45, 1440}

InitSla ==
    /\ reports = <<>>
    /\ now = 0
    /\ Started
    /\ probe \in {[fn |-> "getSlaDeadline", category |-> c, severity |-> v,
                   created_at |-> t, result |-> NULL] :
                      c \in SlaCategories, v \in SlaSeverities, t \in SlaCreated}

ApplyGetSlaDeadline ==
    /\ probe.fn = "getSlaDeadline"
    /\ probe.result = NULL
    /\ probe' = [probe EXCEPT !.result = getSlaDeadline(probe)]
    /\ UNCHANGED <<reports, now, isRunning, sweeps, initPass, posts, session, skipLogged>>

NextSla == ApplyGetSlaDeadline

SpecSla == InitSla /\ [][NextSla]_vars

-----------------------------------------------------------------------------
(* calculateGrowthRate on its own *)

\* 7 * 24 * 60 * 60 * 1000 milliseconds, in hours
OneWeek == 7 * 24

Abs(n) == IF n < 0 THEN -n ELSE n

RECURSIVE GCD(_, _)
GCD(a, b) == IF b = 0 THEN a ELSE GCD(b, a % b)

\* a number of JavaScript as the fraction <<numerator, denominator>> in lowest
\* terms with a positive denominator, so that equal numbers are equal pairs
Ratio(n, d) ==
    LET g == GCD(Abs(n), Abs(d))
        sign == IF d < 0 THEN -1 ELSE 1
    IN <<sign * (n \div g), sign * (d \div g)>>

Number(n) == <<n, 1>>

\* a slip that takes a report created exactly one week ago as not recent
recentReportsStrict(rs, t) == SelectSeq(rs, LAMBDA created_at : created_at > t - OneWeek)

\* reports.filter(r => new Date(r.created_at) >= oneWeekAgo)
recentReports(rs, t) == SelectSeq(rs, LAMBDA created_at : created_at >= t - OneWeek)

\* reports.filter(r => new Date(r.created_at) < oneWeekAgo)
olderReports(rs, t) == SelectSeq(rs, LAMBDA created_at : created_at < t - OneWeek)

\* calculateGrowthRate(reports) called at the time t
calculateGrowthRate(rs, t) ==
    LET recent == Len(recentReports(rs, t))
        older == Len(olderReports(rs, t))
    IN IF older = 0 THEN Number(100)
       ELSE IF recent = 0 THEN Number(0)
       ELSE Ratio((recent - older) * 100, older)

\* the creation times of the members of a cluster, in hours, around the time
\* one week before the call
GrowthNow == {400}
GrowthCreated == {0, 231, 232, 233, 400}
MaxCluster == 4

RECURSIVE SeqsUpTo(_, _)
SeqsUpTo(S, n) ==
    IF n = 0 THEN {<<>>}
    ELSE LET shorter == SeqsUpTo(S, n - 1)
         IN shorter \cup {Append(q, x) : q \in shorter, x \in S}

InitGrowth ==
    /\ reports = <<>>
    /\ now = 0
    /\ Started
    /\ probe \in {[fn |-> "calculateGrowthRate", reports |-> rs, now |-> t,
                   result |-> <<>>] :
                      rs \in SeqsUpTo(GrowthCreated, MaxCluster), t \in GrowthNow}

ApplyCalculateGrowthRate ==
    /\ probe.fn = "calculateGrowthRate"
    /\ probe.result = <<>>
    /\ probe' = [probe EXCEPT !.result = calculateGrowthRate(probe.reports, probe.now)]
    /\ UNCHANGED <<reports, now, isRunning, sweeps, initPass, posts, session, skipLogged>>

NextGrowth == ApplyCalculateGrowthRate

SpecGrowth == InitGrowth /\ [][NextGrowth]_vars

-----------------------------------------------------------------------------
(* clusterLocations on its own *)

\* the default radius of clusterLocations, in metres
ClusterRadius == 100

\* a slip that measures a candidate against the member added last
RECURSIVE GatherChained(_, _, _, _, _, _)
GatherChained(rs, index, j, visited, members, radius) ==
    IF j > Len(rs) THEN [members |-> members, visited |-> visited]
    ELSE IF j \in visited THEN GatherChained(rs, index, j + 1, visited, members, radius)
    ELSE IF Distance(rs[members[Len(members)]], rs[j]) <= radius
         THEN GatherChained(rs, index, j + 1, visited \cup {j}, Append(members, j), radius)
         ELSE GatherChained(rs, index, j + 1, visited, members, radius)

\* for (let j = index + 1; j < reports.length; j++): the unvisited reports
\* within the radius of reports[index] are marked visited and pushed
RECURSIVE Gather(_, _, _, _, _, _)
Gather(rs, index, j, visited, members, radius) ==
    IF j > Len(rs) THEN [members |-> members, visited |-> visited]
    ELSE IF j \in visited THEN Gather(rs, index, j + 1, visited, members, radius)
    ELSE IF Distance(rs[index], rs[j]) <= radius
         THEN Gather(rs, index, j + 1, visited \cup {j}, Append(members, j), radius)
         ELSE Gather(rs, index, j + 1, visited, members, radius)

RECURSIVE SumAt(_, _)
SumAt(rs, members) ==
    IF members = <<>> THEN 0 ELSE rs[Head(members)] + SumAt(rs, Tail(members))

\* the cluster pushed for the seed: its members (as indices of the input), its
\* count, and its center, the seed's own position or the average of the members
Cluster(rs, members) ==
    [reports |-> members,
     count |-> Len(members),
     center |-> IF Len(members) > 1
                THEN Ratio(SumAt(rs, members), Len(members))
                ELSE Number(rs[members[1]])]

\* reports.forEach((report, index) => ...), from index on
RECURSIVE ClusterFrom(_, _, _, _, _)
ClusterFrom(rs, index, visited, clusters, radius) ==
    IF index > Len(rs) THEN clusters
    ELSE IF index \in visited THEN ClusterFrom(rs, index + 1, visited, clusters, radius)
    ELSE LET g == Gather(rs, index, index + 1, visited, <<index>>, radius)
         IN ClusterFrom(rs, index + 1, g.visited \cup {index},
                        Append(clusters, Cluster(rs, g.members)), radius)

clusterLocations(rs, radius) == ClusterFrom(rs, 1, {}, <<>>, radius)

\* positions of the reports of the input, in metres along a street
ClusterLocs == {0, 100, 140, 260}
MaxClusterInput == 4

InitCluster ==
    /\ reports = <<>>
    /\ now = 0
    /\ Started
    /\ probe \in {[fn |-> "clusterLocations", reports |-> rs, radius |-> ClusterRadius,
                   called |-> FALSE, result |-> <<>>] :
                      rs \in SeqsUpTo(ClusterLocs, MaxClusterInput)}

ApplyClusterLocations ==
    /\ probe.fn = "clusterLocations"
    /\ ~probe.called
    /\ probe' = [probe EXCEPT !.called = TRUE,
                              !.result = clusterLocations(probe.reports, probe.radius)]
    /\ UNCHANGED <<reports, now, isRunning, sweeps, initPass, posts, session, skipLogged>>

NextCluster == ApplyClusterLocations

SpecCluster == InitCluster /\ [][NextCluster]_vars

-----------------------------------------------------------------------------
(* predictTrends on its own *)

\* the numbers of the regression are exact fractions <<numerator, denominator>>
Plus(a, b) == Ratio(a[1] * b[2] + b[1] * a[2], a[2] * b[2])
Times(a, b) == Ratio(a[1] * b[1], a[2] * b[2])
Over(a, b) == Ratio(a[1] * b[2], a[2] * b[1])
Minus(a, b) == Plus(a, Times(Number(-1), b))

\* a slip that drops the fraction instead of rounding
RoundTruncated(a) == a[1] \div a[2]

\* Math.round: the nearest integer, a half rounding up
Round(a) == (2 * a[1] + a[2]) \div (2 * a[2])

Max(a, b) == IF a >= b THEN a ELSE b

RECURSIVE SumSeq(_)
SumSeq(q) == IF q = <<>> THEN 0 ELSE Head(q) + SumSeq(Tail(q))

\* linearRegression(x, y), x and y being sequences of integers
linearRegression(x, y) ==
    LET n == Len(x)
        sum_x == SumSeq([i \in 1..n |-> x[i]])
        sum_y == SumSeq([i \in 1..n |-> y[i]])
        sum_xy == SumSeq([i \in 1..n |-> x[i] * y[i]])
        sum_xx == SumSeq([i \in 1..n |-> x[i] * x[i]])
        slope == Over(Number(n * sum_xy - sum_x * sum_y), Number(n * sum_xx - sum_x * sum_x))
        intercept == Over(Minus(Number(sum_y), Times(slope, Number(sum_x))), Number(n))
    IN [slope |-> slope, intercept |-> intercept]

\* the entry of predictions for the rows of one category
Prediction(data, periodsAhead) ==
    LET x == [i \in 1..Len(data) |-> i - 1]
        y == [i \in 1..Len(data) |-> data[i].count]
        line == linearRegression(x, y)
        nextIndex(i) == x[Len(x)] + i
    IN [historical |-> data,
        predicted |-> [i \in 1..periodsAhead |->
                          [periodIndex |-> nextIndex(i),
                           predictedCount |->
                               Max(0, Round(Plus(Times(line.slope, Number(nextIndex(i))),
                                                 line.intercept)))]],
        trend |-> IF line.slope[1] > 0 THEN "increasing"
                  ELSE IF line.slope[1] < 0 THEN "decreasing" ELSE "stable"]

\* categories[item.category].push(item), in the order of the input
RowsOf(historicalData, category) ==
    SelectSeq(historicalData, LAMBDA item : item.category = category)

\* predictTrends(historicalData, periodsAhead): an entry for each category
\* that has two rows or more
predictTrends(historicalData, periodsAhead) ==
    LET keys == {historicalData[i].category : i \in 1..Len(historicalData)}
        fitted == {c \in keys : Len(RowsOf(historicalData, c)) >= 2}
    IN [c \in fitted |-> Prediction(RowsOf(historicalData, c), periodsAhead)]

DefaultPeriodsAhead == 4
PeriodsAheadValues == {2, DefaultPeriodsAhead}
TrendCategories == {"POTHOLE", "GARBAGE"}
TrendCounts == {1, 2, 3, 4}
MaxTrendRows == 4

\* rows of a period table: one row for a period and a category, with its count
TrendRows == {[category |-> c, count |-> k] : c \in TrendCategories, k \in TrendCounts}

InitTrends ==
    /\ reports = <<>>
    /\ now = 0
    /\ Started
    /\ probe \in {[fn |-> "predictTrends", historicalData |-> rows, periodsAhead |-> pa,
                   called |-> FALSE, result |-> <<>>] :
                      rows \in SeqsUpTo(TrendRows, MaxTrendRows), pa \in PeriodsAheadValues}

ApplyPredictTrends ==
    /\ probe.fn = "predictTrends"
    /\ ~probe.called
    /\ probe' = [probe EXCEPT !.called = TRUE,
                              !.result = predictTrends(probe.historicalData, probe.periodsAhead)]
    /\ UNCHANGED <<reports, now, isRunning, sweeps, initPass, posts, session, skipLogged>>

NextTrends == ApplyPredictTrends

SpecTrends == InitTrends /\ [][NextTrends]_vars

-----------------------------------------------------------------------------
(* getPredictiveAnalytics: the weekly rows and their forecast *)

MaxWeeks == 3
WeekCounts == 0..3
CategoryOrder == <<"POTHOLE", "GARBAGE">>

\* the reports of the last weeks: table[c][w] is the number of reports of the
\* category c created in the week w, the week 1 being the earliest
WeekTables == [TrendCategories -> [1..MaxWeeks -> WeekCounts]]

\* the rows of GROUP BY period, category for the period w: a category without
\* a report in the period has no row
PeriodRows(table, w) ==
    LET all == [k \in 1..Len(CategoryOrder) |->
                   [period |-> w, category |-> CategoryOrder[k],
                    count |-> table[CategoryOrder[k]][w]]]
    IN SelectSeq(all, LAMBDA row : row.count > 0)

\* ... ORDER BY period DESC: the rows of the latest period come first
RECURSIVE RowsDescending(_, _)
RowsDescending(table, w) ==
    IF w = 0 THEN <<>> ELSE PeriodRows(table, w) \o RowsDescending(table, w - 1)

\* getReportsByTimePeriod('week')
getReportsByTimePeriod(table) == RowsDescending(table, MaxWeeks)

InitAnalytics ==
    /\ reports = <<>>
    /\ now = 0
    /\ Started
    /\ probe \in {[fn |-> "getPredictiveAnalytics", table |-> table, called |-> FALSE,
                   weeklyTrends |-> <<>>, predictions |-> <<>>] : table \in WeekTables}

\* getPredictiveAnalytics: weeklyData = getReportsByTimePeriod('week'),
\* predictions = predictTrends(weeklyData)
GetPredictiveAnalytics ==
    /\ probe.fn = "getPredictiveAnalytics"
    /\ ~probe.called
    /\ LET weeklyData == getReportsByTimePeriod(probe.table)
       IN probe' = [probe EXCEPT !.called = TRUE,
                                 !.weeklyTrends = weeklyData,
                                 !.predictions = predictTrends(weeklyData, DefaultPeriodsAhead)]
    /\ UNCHANGED <<reports, now, isRunning, sweeps, initPass, posts, session, skipLogged>>

NextAnalytics == GetPredictiveAnalytics

SpecAnalytics == InitAnalytics /\ [][NextAnalytics]_vars

-----------------------------------------------------------------------------
(* Properties, part 1: escalation and resolution, duplicate bookkeeping *)

\* C1: in every reachable state no report has escalated = true together
\* with status = resolved, under every interleaving of the sweep with the
\* status updates.
C1_NoResolvedEscalated ==
    \A id \in Ids : ~(reports[id].escalated /\ reports[id].status = "resolved")

\* C2: for every report with isPrimary = true, duplicateCount is one more than
\* the number of ids in mergedReports, in every reachable state.
C2_DuplicateCount ==
    \A id \in Ids :
        reports[id].isPrimary =>
            reports[id].duplicateCount = 1 + Len(reports[id].mergedReports)

\* a primary that lists its one duplicate and counts two
C2_Witness ==
    \E p, d \in Ids :
        /\ reports[p].isPrimary
        /\ reports[d].duplicateOf = p
        /\ reports[p].mergedReports = <<d>>
        /\ reports[p].duplicateCount = 2

\* C3: for every stored report isPrimary holds exactly when duplicateOf is
\* null, whichever path created it, and no step changes the isPrimary or the
\* duplicateOf of a stored report.
C3_PrimaryIffNoDuplicateOf ==
    /\ [](\A id \in Ids : reports[id].isPrimary <=> (reports[id].duplicateOf = NULL))
    /\ [][\A id \in Ids :
             /\ reports'[id].isPrimary = reports[id].isPrimary
             /\ reports'[id].duplicateOf = reports[id].duplicateOf]_vars

\* a duplicate that has since been resolved, beside its primary that has
\* since been escalated
C3_Witness ==
    \E p, d \in Ids :
        /\ reports[d].duplicateOf = p
        /\ ~reports[d].isPrimary
        /\ reports[d].status = "resolved"
        /\ reports[p].isPrimary
        /\ reports[p].duplicateOf = NULL
        /\ reports[p].escalated

\* C4: the duplicateOf of every non-primary report is the id of a report
\* stored before it, different from it, and primary.
C4_DuplicateOfEarlierPrimary ==
    \A id \in Ids :
        ~reports[id].isPrimary =>
            /\ reports[id].duplicateOf \in 1..(id - 1)
            /\ reports[reports[id].duplicateOf].isPrimary

\* C5: an invocation of checkForEscalations that finds another one running
\* returns at once: at most one invocation is ever past the guard, the flag
\* is set while it is, and no invocation notifies a report twice.
C5_OverlapSkipped ==
    /\ Cardinality({s \in 1..MaxSweeps : sweeps[s].pc # "idle"}) <= 1
    /\ (\E s \in 1..MaxSweeps : sweeps[s].pc # "idle") => isRunning
    /\ \A s \in 1..MaxSweeps :
          sweeps[s].pc \in {"loop", "finish"} =>
              \A i, j \in DOMAIN sweeps[s].notified :
                  sweeps[s].notified[i].id = sweeps[s].notified[j].id => i = j

\* the timer has fired while an invocation waits for an UPDATE, and was skipped
C5_Witness ==
    /\ skipLogged
    /\ isRunning
    /\ \E s \in 1..MaxSweeps : sweeps[s].pc = "loop"

\* how many notifications invocation s has emitted for report id
NotifiedCount(s, id) ==
    Cardinality({i \in DOMAIN sweeps[s].notified : sweeps[s].notified[i].id = id})

\* the notifications invocation s has emitted for report id all carry h hours
NotifiedHours(s, id, h) ==
    \A i \in DOMAIN sweeps[s].notified :
        sweeps[s].notified[i].id = id => sweeps[s].notified[i].hoursOverdue = h

\* row r of the SELECT was past its deadline at time t
Due(r, t) == r.sla_deadline # NULL /\ r.sla_deadline < t

\* a step that escalates report id or changes its priority is the UPDATE of a
\* running invocation for a row it selected and found overdue
OnlySweepEscalates(id) ==
    (\/ reports'[id].escalated /\ ~reports[id].escalated
     \/ reports'[id].priority # reports[id].priority) =>
        \E s \in 1..MaxSweeps :
            /\ sweeps[s].pc = "loop"
            /\ sweeps[s].rows[1].id = id
            /\ \E r \in sweeps[s].open : r.id = id /\ Due(r, now)
            /\ reports'[id] = [reports[id] EXCEPT !.escalated = TRUE, !.priority = "HIGH"]

\* what a complete sweep that ran at time now has done, for the rows whose
\* statements succeeded (with failures = TRUE) or for every row (with
\* failures = FALSE)
SweepEffect(failures) ==
    \A s \in 1..MaxSweeps :
        (sweeps[s].pc = "finish" /\ sweeps[s].start = now) =>
            /\ \A r \in sweeps[s].open :
                  IF Due(r, now) /\ ~(failures /\ r.id \in sweeps[s].failed)
                  THEN /\ NotifiedCount(s, r.id) = 1
                       /\ NotifiedHours(s, r.id, (now - r.sla_deadline) \div MinutesPerHour)
                       /\ r.id \notin sweeps[s].touched =>
                             /\ reports[r.id].escalated
                             /\ reports[r.id].priority = "HIGH"
                             /\ reports[r.id].status = r.status
                  ELSE /\ NotifiedCount(s, r.id) = 0
                       /\ r.id \notin sweeps[s].touched =>
                             /\ ~reports[r.id].escalated
                             /\ reports[r.id].status = r.status
            /\ \A i \in DOMAIN sweeps[s].notified :
                  \E r \in sweeps[s].open : r.id = sweeps[s].notified[i].id

C7_ResolveClearsFlags ==
    [][\A id \in Ids :
          (/\ reports'[id].status = "resolved"
           /\ reports'[id].escalated \/ reports'[id].escalationNotified) =>
              /\ reports[id].status = "resolved"
              /\ ~PatchReport(id, "resolved", FALSE)
              /\ \A verified \in BOOLEAN : ~ResolveReport(id, verified, TRUE)]_vars

\* a report the sweep escalated (its priority is HIGH) has been resolved with
\* a resolution photo and is no longer escalated
C7_Witness ==
    \E id \in Ids :
        /\ reports[id].status = "resolved"
        /\ reports[id].resolutionPhoto
        /\ reports[id].priority = "HIGH"
        /\ ~reports[id].escalated
        /\ ~reports[id].escalationNotified

\* C8: every stored report has a non-null slaDeadline, from its creation on,
\* whichever path created it.
C8_SlaDeadlineNeverNull ==
    \A id \in Ids : reports[id].slaDeadline # NULL

-----------------------------------------------------------------------------
(* Properties, part 2: the SLA table and the similarity scan *)

\* the hours of the severity alone, as the table of severities gives them
SeverityHours(severity) ==
    CASE severity = "HIGH" -> 6
      [] severity = "MEDIUM" -> 24
      [] severity = "LOW" -> 72
      [] OTHER -> 24

MatchPositions(p) ==
    {k \in 1..Len(p.cands) : p.outcomes[k].kind = "score" /\ p.outcomes[k].score >= 80}

\* the least element of a non-empty set of numbers
Least(S) == CHOOSE k \in S : \A j \in S : k <= j

-----------------------------------------------------------------------------
(* Properties, part 3: what the scan links, and what ingestion leaves behind *)

\* the elements of a sequence
Range(seq) == {seq[i] : i \in DOMAIN seq}

\* C11: a report ingested through POST /report is linked to c only if the
\* proximity query returned c, c's image was readable and the oracle returned
\* a score >= 80 for c; a lower score, an unreadable image or a failed call
\* never links, and reports more than 50 m apart (60 m) are never linked.
C11_LinkOnlyOnMatch ==
    /\ \A h \in 1..MaxInflight :
          posts[h].pc = "update" =>
              \E k \in DOMAIN posts[h].cands :
                  /\ posts[h].cands[k] = posts[h].primary
                  /\ reports[posts[h].newId].duplicateOf = posts[h].primary
                  /\ posts[h].outcomes[k].kind = "score"
                  /\ posts[h].outcomes[k].score >= 80
                  /\ Distance(reports[posts[h].primary].loc,
                              reports[posts[h].newId].loc) <= 50
    /\ \A id \in Ids :
          reports[id].duplicateOf # NULL =>
              /\ Distance(reports[id].loc, reports[reports[id].duplicateOf].loc) <= 50
              /\ Distance(reports[id].loc, reports[reports[id].duplicateOf].loc) # 60
              /\ reports[id].similarityScore >= 80

\* a report was linked to the one candidate 0 m away that scored 80 while a
\* report 60 m away was stored and was not among the candidates
C11_Witness ==
    \E h \in 1..MaxInflight :
        /\ posts[h].pc = "update"
        /\ Len(posts[h].cands) = 1
        /\ posts[h].outcomes[1] = [kind |-> "score", score |-> 80]
        /\ reports[posts[h].newId].duplicateOf = posts[h].cands[1]
        /\ \E id \in Ids :
              /\ Distance(reports[id].loc, reports[posts[h].newId].loc) = 60
              /\ id \notin Range(posts[h].cands)

\* the candidates up to position last whose image was readable, in order
ComparedUpTo(cands, outcomes, last) ==
    SelectSeq(SubSeq(cands, 1, last),
              LAMBDA c : \E i \in 1..last : cands[i] = c /\ outcomes[i].kind # "unreadable")

\* C12: an unreadable image or a comparison that throws does not end the scan:
\* whatever the answers, every candidate up to the first match, or every
\* candidate when none matches, is evaluated; and a request none of whose
\* candidates matched is answered 201 with the report stored as a new primary
\* with duplicateCount = 1 and empty mergedReports.
C12_ScanSurvivesErrors ==
    \A h \in 1..MaxInflight :
        /\ posts[h].pc = "scan" =>
              \A outcomes \in [1..Len(posts[h].cands) -> Outcomes] :
                  LET p == [cands |-> posts[h].cands, outcomes |-> outcomes]
                      scan == SimilarityScan(p.cands, outcomes)
                  IN IF MatchPositions(p) = {}
                     THEN /\ scan.primary = NULL
                          /\ scan.calls = ComparedUpTo(p.cands, outcomes, Len(p.cands))
                     ELSE /\ scan.primary = p.cands[Least(MatchPositions(p))]
                          /\ scan.calls =
                                ComparedUpTo(p.cands, outcomes, Least(MatchPositions(p)))
        /\ (/\ posts[h].pc = "idle"
            /\ "status" \in DOMAIN posts[h]
            /\ posts[h].status = 201
            /\ posts[h].primary = NULL) =>
               /\ posts[h].newId \in Ids
               /\ reports[posts[h].newId].isPrimary
               /\ reports[posts[h].newId].duplicateOf = NULL
               /\ reports[posts[h].newId].duplicateCount = 1
               /\ reports[posts[h].newId].mergedReports = <<>>

\* the first comparison threw, the second candidate was still compared and
\* did not match, and the report was stored as a new primary
C12_Witness ==
    \E h \in 1..MaxInflight :
        /\ posts[h].pc = "idle"
        /\ "status" \in DOMAIN posts[h]
        /\ posts[h].status = 201
        /\ posts[h].primary = NULL
        /\ Len(posts[h].calls) = 2
        /\ posts[h].calls[1] \in posts[h].errors
        /\ posts[h].calls[2] \notin posts[h].errors
        /\ reports[posts[h].newId].isPrimary
        /\ reports[posts[h].newId].duplicateCount = 1

\* a step changes the merge columns of report id only as the UPDATE of one
\* handler that waits to merge into id: one more in duplicateCount and the
\* handler's own new id at the end of mergedReports, both at once
MergedByOneHandler(id) ==
    (\/ reports'[id].duplicateCount # reports[id].duplicateCount
     \/ reports'[id].mergedReports # reports[id].mergedReports) =>
        \E h \in 1..MaxInflight :
            /\ posts[h].pc = "update"
            /\ posts[h].primary = id
            /\ posts'[h].pc = "idle"
            /\ reports'[id].duplicateCount = reports[id].duplicateCount + 1
            /\ reports'[id].mergedReports =
                   Append(reports[id].mergedReports, posts[h].newId)

\* C13: concurrent ingestions that resolved to duplicates of the same report
\* each add exactly 1 to its duplicateCount and append their own id to its
\* mergedReports in one step; nothing that was appended is lost or repeated.
C13_ConcurrentMerges ==
    /\ [](\A id \in Ids :
            /\ \A i, j \in DOMAIN reports[id].mergedReports :
                  reports[id].mergedReports[i] = reports[id].mergedReports[j] => i = j
            /\ \A d \in Range(reports[id].mergedReports) :
                  d \in Ids /\ reports[d].duplicateOf = id
            /\ reports[id].duplicateCount = 1 + Len(reports[id].mergedReports))
    /\ [][\A id \in Ids : MergedByOneHandler(id)]_vars

\* two ingestions overlapped on the same report: the one that inserted later
\* has merged, the list holds its id, and the earlier one still waits
C13_Witness ==
    \E h \in 1..MaxInflight, d \in Ids :
        /\ posts[h].pc = "update"
        /\ d > posts[h].newId
        /\ reports[d].duplicateOf = posts[h].primary
        /\ reports[posts[h].newId].duplicateOf = posts[h].primary
        /\ reports[posts[h].primary].mergedReports = <<d>>
        /\ reports[posts[h].primary].duplicateCount = 2

\* slot h holds the response of a finished request
HasResponse(h) == posts[h].pc = "idle" /\ "status" \in DOMAIN posts[h]

\* C14: every POST /report ends either in a success response, with the new
\* row stored and, for a duplicate, the referenced report's duplicateCount
\* and mergedReports updated, or in a failure response with no row added and
\* no report changed; no success response follows a failed update of the
\* referenced report.
C14_AllOrNothing ==
    /\ [](\A h \in 1..MaxInflight :
            HasResponse(h) =>
                /\ posts[h].status \in {201, 500}
                /\ posts[h].status = 201 =>
                      /\ posts[h].newId \in Ids
                      /\ posts[h].primary # NULL =>
                            /\ posts[h].updated
                            /\ reports[posts[h].newId].duplicateOf = posts[h].primary
                            /\ posts[h].newId \in
                                  Range(reports[posts[h].primary].mergedReports)
                /\ posts[h].status = 500 => posts[h].newId = NULL)
    /\ [][\A h \in 1..MaxInflight :
            (posts[h].pc # "idle" /\ posts'[h].pc = "idle" /\ posts'[h].status = 500) =>
                reports' = reports]_vars

\* C15: every stored report has priority equal to the severity of its
\* classification and urgent = true exactly when the classification's
\* estimatedUrgency is IMMEDIATE or URGENT, whichever path created it and
\* also under the fallback classification.
C15_PriorityIsSeverity ==
    \A id \in Ids :
        /\ reports[id].priority = reports[id].aiAnalysis.severity
        /\ reports[id].urgent = (reports[id].aiAnalysis.estimatedUrgency \in {"IMMEDIATE", "URGENT"})

-----------------------------------------------------------------------------
(* Properties, part 4: status updates *)

AllowedChange(from, to) ==
    \/ from = to
    \/ from = "pending" /\ to = "verified"
    \/ from \in {"pending", "verified"} /\ to = "resolved"
    \/ to = "pending"

\* C17: the only status changes are pending -> verified, a change to resolved
\* from pending or verified, and a change to pending from any status; a
\* resolved report never becomes verified.
C17_OnlyAllowedChanges ==
    [][\A id \in Ids : AllowedChange(reports[id].status, reports'[id].status)]_vars

\* C18: a report is resolved only by the upload of a resolution photo: every
\* resolved report has a resolution photo.
C18_ResolvedHasPhoto ==
    \A id \in Ids : reports[id].status = "resolved" => reports[id].resolutionPhoto

\* C19: a status update to pending, from any status, changes only the status
\* of the target report; its escalation flags, priority, deadline, duplicate
\* fields and every other report are unchanged.
C19_ResetChangesOnlyStatus ==
    [][\A id \in Ids :
          \/ reports' = [reports EXCEPT ![id].status = "pending"]
          \/ ~PatchReport(id, "pending", FALSE)]_vars

\* a report that was resolved with a photo is pending again, and still counts
\* the duplicate merged into it
C19_Witness ==
    \E id \in Ids :
        /\ reports[id].status = "pending"
        /\ reports[id].resolutionPhoto
        /\ reports[id].duplicateCount >= 2

-----------------------------------------------------------------------------
(* Properties, part 5: analytics *)

\* the members of the cluster created within the last 7 days, and the others
WithinWeek(p) == {i \in 1..Len(p.reports) : p.now - p.reports[i] <= OneWeek}
BeforeWeek(p) == {i \in 1..Len(p.reports) : p.now - p.reports[i] > OneWeek}

\* C20: for a cluster with r members created within the last 7 days and o
\* older members, calculateGrowthRate returns 100 when o = 0, 0 when r = 0 and
\* o > 0, and (r - o) / o * 100 otherwise; (o, r) = (0, 2) gives 100, (2, 0)
\* gives 0, (1, 3) gives 200; every member is in exactly one of the two groups.
C20_GrowthRate ==
    (probe.fn = "calculateGrowthRate" /\ probe.result # <<>>) =>
        LET r == Cardinality(WithinWeek(probe))
            o == Cardinality(BeforeWeek(probe))
            result == probe.result
        IN /\ Len(recentReports(probe.reports, probe.now)) = r
           /\ Len(olderReports(probe.reports, probe.now)) = o
           /\ r + o = Len(probe.reports)
           /\ o = 0 => result = <<100, 1>>
           /\ (r = 0 /\ o > 0) => result = <<0, 1>>
           /\ (r > 0 /\ o > 0) =>
                 result[2] > 0 /\ result[1] * o = (r - o) * 100 * result[2]
           /\ (o = 0 /\ r = 2) => result = <<100, 1>>
           /\ (o = 2 /\ r = 0) => result = <<0, 1>>
           /\ (o = 1 /\ r = 3) => result = <<200, 1>>

\* one older member and three recent ones, one of them created exactly one
\* week before the call: the growth rate is 200
C20_Witness ==
    /\ probe.fn = "calculateGrowthRate"
    /\ probe.result = <<200, 1>>
    /\ Cardinality(BeforeWeek(probe)) = 1
    /\ \E i \in 1..Len(probe.reports) : probe.now - probe.reports[i] = OneWeek

\* the indices of the input that are members of the k-th cluster, and of the
\* clusters before the k-th
Members(cl, k) == {cl[k].reports[m] : m \in 1..Len(cl[k].reports)}
Earlier(cl, k) == UNION {Members(cl, c) : c \in 1..(k - 1)}

\* C21: clusterLocations partitions its input; the first member of a cluster
\* is its seed, the first report in input order that no earlier cluster holds;
\* the other members are the later reports no earlier cluster holds that lie
\* within the radius of the seed, whatever their distance to the center or to
\* another member; count is the number of members and the center is the mean
\* of the members' coordinates.
C21_ClustersPartition ==
    (probe.fn = "clusterLocations" /\ probe.called) =>
        LET rs == probe.reports
            cl == probe.result
            free(k) == (1..Len(rs)) \ Earlier(cl, k)
        IN /\ \A i \in 1..Len(rs) :
                 Cardinality({k \in 1..Len(cl) : i \in Members(cl, k)}) = 1
           /\ \A k \in 1..Len(cl) :
                 LET seed == cl[k].reports[1]
                 IN /\ Cardinality(Members(cl, k)) = Len(cl[k].reports)
                    /\ seed \in free(k)
                    /\ \A i \in free(k) : seed <= i
                    /\ Members(cl, k) =
                          {seed} \cup {j \in free(k) :
                                         j > seed /\ Distance(rs[seed], rs[j]) <= probe.radius}
                    /\ cl[k].count = Len(cl[k].reports)
                    /\ cl[k].center[2] > 0
                    /\ cl[k].center[1] * cl[k].count =
                          SumAt(rs, cl[k].reports) * cl[k].center[2]

\* reports at 0, 100 and 140 metres: the first two form a cluster centred at
\* 50, and the third, 90 m from that center and 40 m from the second report
\* but 140 m from the seed, is a cluster of its own
C21_Witness ==
    /\ probe.fn = "clusterLocations"
    /\ probe.called
    /\ probe.reports = <<0, 100, 140>>
    /\ Len(probe.result) = 2
    /\ probe.result[1].reports = <<1, 2>>
    /\ probe.result[1].center = <<50, 1>>
    /\ probe.result[2].reports = <<3>>

\* C22: predictTrends gives an entry to each category with at least 2 rows and
\* to no other; the fitted line is the least-squares line over x = 0..n-1 (the
\* denominator n*Sxx - Sx*Sx is not zero); there are exactly periodsAhead
\* predictions, for the indices n, n+1, ..., each max(0, round(slope*x +
\* intercept)) and so never negative; the trend follows the sign of the slope;
\* the series 1, 2, 3, 4 gives slope 1, trend increasing, first prediction 5.
C22_PredictTrends ==
    (probe.fn = "predictTrends" /\ probe.called) =>
        \A c \in TrendCategories :
            LET data == RowsOf(probe.historicalData, c)
                n == Len(data)
                x == [i \in 1..n |-> i - 1]
                y == [i \in 1..n |-> data[i].count]
                Sx == SumSeq([i \in 1..n |-> x[i]])
                Sy == SumSeq([i \in 1..n |-> y[i]])
                Sxy == SumSeq([i \in 1..n |-> x[i] * y[i]])
                Sxx == SumSeq([i \in 1..n |-> x[i] * x[i]])
                line == linearRegression(x, y)
                m == line.slope
                b == line.intercept
                entry == probe.result[c]
            IN IF n < 2 THEN c \notin DOMAIN probe.result
               ELSE /\ c \in DOMAIN probe.result
                    /\ n * Sxx - Sx * Sx # 0
                    /\ m[2] > 0 /\ b[2] > 0
                    \* the normal equations of least squares
                    /\ m[1] * Sxx * b[2] + b[1] * Sx * m[2] = Sxy * m[2] * b[2]
                    /\ m[1] * Sx * b[2] + b[1] * n * m[2] = Sy * m[2] * b[2]
                    /\ Len(entry.predicted) = probe.periodsAhead
                    /\ \A i \in 1..Len(entry.predicted) :
                          LET p == entry.predicted[i]
                              v == p.predictedCount
                              \* slope * x + intercept as num / den, den > 0
                              num == m[1] * p.periodIndex * b[2] + b[1] * m[2]
                              den == m[2] * b[2]
                              nearest(k) == 2 * den * k - den <= 2 * num /\ 2 * num < 2 * den * k + den
                          IN /\ p.periodIndex = n + i - 1
                             /\ v >= 0
                             /\ IF 2 * num + den < 0 THEN v = 0
                                ELSE nearest(v)
                    /\ entry.trend = IF m[1] > 0 THEN "increasing"
                                     ELSE IF m[1] < 0 THEN "decreasing" ELSE "stable"
                    /\ y = <<1, 2, 3, 4>> =>
                          /\ m = <<1, 1>>
                          /\ entry.trend = "increasing"
                          /\ entry.predicted[1].predictedCount = 5

\* a falling series of three rows of one category was fitted with the default
\* of four periods ahead and its line is below zero at the index 3, where the
\* prediction is 0; the other category has one row and no entry
C22_Witness ==
    /\ probe.fn = "predictTrends"
    /\ probe.called
    /\ probe.periodsAhead = DefaultPeriodsAhead
    /\ DOMAIN probe.result = {"POTHOLE"}
    /\ Len(probe.result["POTHOLE"].historical) = 3
    /\ probe.result["POTHOLE"].trend = "decreasing"
    /\ probe.result["POTHOLE"].predicted[1] = [periodIndex |-> 3, predictedCount |-> 0]
    /\ \E i \in 1..Len(probe.historicalData) : probe.historicalData[i].category = "GARBAGE"

-----------------------------------------------------------------------------
(* Properties, part 6: the stricter SLA, escalation in time *)

\* C23: the hours getSlaDeadline uses are the shorter of the category's hours
\* and the severity's hours, for every category of the table and every
\* severity HIGH, MEDIUM, LOW.
C23_StricterSla ==
    (/\ probe.fn = "getSlaDeadline"
     /\ probe.result # NULL
     /\ probe.category \in DOMAIN CategorySla
     /\ probe.severity \in {"HIGH", "MEDIUM", "LOW"}) =>
        probe.result = probe.created_at
                         + Min(CategorySla[probe.category], SeverityHours(probe.severity)) * 60

\* the report id is stored, open, and the hours its category and severity
\* allow have passed since its creation
OpenOverdue(id) ==
    /\ id \in Ids
    /\ reports[id].status \in {"pending", "verified"}
    /\ now > reports[id].createdAt
                + slaHours(reports[id].category, reports[id].severity) * 60

\* C24: under periodic sweeps, every report that stays pending or verified is
\* eventually escalated once the hours its category and severity allow have
\* passed since its creation, whichever path created it and without a restart
\* of the process.
C24_EventuallyEscalated ==
    \A id \in 1..MaxRows :
        (<>[]OpenOverdue(id)) => <>(id \in Ids /\ reports[id].escalated)

\* C25: whenever an invocation of checkForEscalations that set isRunning
\* ends, normally or after a failure of the query or of an escalation,
\* isRunning is false again; so the flag is not held for ever and a timer fire
\* starts a real sweep again and again.
C25_FlagReleased ==
    /\ [][\A s \in 1..MaxSweeps :
            (sweeps[s].pc # "idle" /\ sweeps'[s].pc = "idle") => ~isRunning']_vars
    /\ []<>(~isRunning)
    /\ []<>(\E s \in 1..MaxSweeps : sweeps[s].pc = "select")

\* a sweep in which a statement failed has ended and the next sweep has begun
C25_Witness ==
    /\ probe.fn = "checkForEscalations"
    /\ probe.failed # {}
    /\ isRunning
    /\ \E s \in 1..MaxSweeps : sweeps[s].pc = "select"

\* the step is one in which the sweep s emits a notification
Notifies(s) ==
    /\ sweeps[s].pc = "loop"
    /\ sweeps'[s].pc \in {"loop", "finish"}
    /\ Len(sweeps'[s].notified) = Len(sweeps[s].notified) + 1

\* C26: between any two notifications for the same report there is a resolve
\* of that report. A notification for a report is emitted only while its
\* escalated column is 0, the step that emits it sets the column to 1, and
\* only a step that resolves the report sets the column back to 0.
C26_OneNotificationPerEpisode ==
    /\ [][\A s \in 1..MaxSweeps :
            Notifies(s) =>
                LET id == sweeps[s].rows[1].id
                IN /\ sweeps'[s].notified[Len(sweeps'[s].notified)].id = id
                   /\ ~reports[id].escalated
                   /\ reports'[id].escalated]_vars
    /\ [][\A id \in Ids :
            (reports[id].escalated /\ ~reports'[id].escalated) =>
                /\ reports'[id].status = "resolved"
                /\ \/ PatchReport(id, "resolved", FALSE)
                   \/ \E verified \in BOOLEAN : ResolveReport(id, verified, TRUE)]_vars

\* a report that was resolved with a photo and reset to pending has been
\* escalated again, and the running sweep has emitted the notification
C26_Witness ==
    \E s \in 1..MaxSweeps :
        /\ sweeps[s].pc \in {"loop", "finish"}
        /\ \E k \in 1..Len(sweeps[s].notified) :
              LET id == sweeps[s].notified[k].id
              IN /\ reports[id].resolutionPhoto
                 /\ reports[id].status = "pending"
                 /\ reports[id].escalated

-----------------------------------------------------------------------------
(* Properties, part 7: concurrent ingestion, duplicate bookkeeping, analytics *)

\* C27: duplicates of one issue are merged even when submitted concurrently:
\* of two POST /report ingestions within 50 m of each other whose images
\* score 80 or more, in every interleaving at least one is stored as a
\* duplicate; they never both are primaries.
C27_NeverBothPrimary ==
    \A a, b \in Ids :
        (/\ a # b
         /\ Distance(reports[a].loc, reports[b].loc) <= RadiusMetres) =>
            ~(/\ reports[a].isPrimary /\ reports[a].duplicateOf = NULL
              /\ reports[b].isPrimary /\ reports[b].duplicateOf = NULL)

\* the reports stored as duplicates of p
DuplicatesOf(p) == {d \in Ids : reports[d].duplicateOf = p}

\* C28: for every report P, mergedReports(P) is exactly the set of the ids of
\* the reports whose duplicateOf is P, and duplicateCount(P) - 1 is their
\* number, also after an ingestion whose duplicate row was written and whose
\* update of P failed. The states in which a handler stands between its
\* INSERT and its UPDATE are left out.
C28_MergedIsDuplicates ==
    (\A h \in 1..MaxInflight : posts[h].pc # "update") =>
        \A p \in Ids :
            /\ Range(reports[p].mergedReports) = DuplicatesOf(p)
            /\ reports[p].duplicateCount - 1 = Cardinality(DuplicatesOf(p))

\* the counts of the weeks in which the category has reports, earliest first
CountsOverTime(table, c) ==
    SelectSeq([w \in 1..MaxWeeks |-> table[c][w]], LAMBDA k : k > 0)

\* C29: the rows handed to predictTrends are indexed in chronological order,
\* so a category whose weekly counts strictly increase over time is reported
\* with trend increasing, and one whose counts strictly decrease with trend
\* decreasing.
C29_TrendFollowsTime ==
    (probe.fn = "getPredictiveAnalytics" /\ probe.called) =>
        \A c \in TrendCategories :
            LET y == CountsOverTime(probe.table, c)
            IN Len(y) >= 2 =>
                 /\ (\A i \in 1..(Len(y) - 1) : y[i] < y[i + 1]) =>
                       probe.predictions[c].trend = "increasing"
                 /\ (\A i \in 1..(Len(y) - 1) : y[i] > y[i + 1]) =>
                       probe.predictions[c].trend = "decreasing"

-----------------------------------------------------------------------------
(* Properties, part 8: the WhatsApp session *)

\* C30: a sender who gives a photo and a location in two messages gets exactly
\* one report, whichever comes first: a photo message that follows a location
\* message creates a report from the stored location and the new photo, as a
\* location message that follows a photo message creates one from the stored
\* photo; the session holds no photo and no location afterwards.
C30_EitherOrderCreatesReport ==
    /\ [][(session.location # NULL /\ WebhookPhoto(TRUE)) =>
            /\ Len(reports') = Len(reports) + 1
            /\ reports'[Len(reports')].loc = session.location
            /\ session' = NoSession]_vars
    /\ [][(session.photo /\ ~session'.photo) =>
            /\ Len(reports') <= Len(reports) + 1
            /\ session' = NoSession]_vars

====
